---- MODULE Spec2Model ----
(***************************************************************************)
(* A model of the lispish interpreter (src/main.py): the tokenizer         *)
(* InStream.next, the reader read, the Environment chain and the           *)
(* evaluator eval_ / apply_.                                               *)
(*                                                                         *)
(* Text (a Python str) is a sequence of one-character strings.             *)
(* Expressions are records tagged by the name of their Python class.       *)
(* An Environment object is an index into heap; index 0 is None.           *)
(***************************************************************************)
EXTENDS Integers, Sequences, FiniteSets, TLC

VARIABLES heap, last, ops, f, line, iters, tok, stack, consumed, rstate, rval, reads

vars == <<heap, last, ops, f, line, iters, tok, stack, consumed, rstate, rval, reads>>

evalVars == <<heap, last, ops>>

readVars == <<f, line, iters, tok, stack, consumed, rstate, rval, reads>>

(***************************************************************************)
(* Bounds of the model.                                                    *)
(***************************************************************************)
MaxOps == 2

MaxInt == 1

MaxSrcLen == 4

MaxIters == 5

MaxReads == 2

(***************************************************************************)
(* Small helpers.                                                          *)
(***************************************************************************)
Min(a, b) == IF a < b THEN a ELSE b

Last(s) == s[Len(s)]

(***************************************************************************)
(* The expression model.                                                   *)
(***************************************************************************)
Number(n) == [kind |-> "Number", value |-> n]

Symbol(text) == [kind |-> "Symbol", name |-> text]

List(es) == [kind |-> "List", elems |-> es]

Procedure(params, body, env) ==
    [kind |-> "Procedure", params |-> params, body |-> body, env |-> env]

BuiltinProcedure(callable) == [kind |-> "BuiltinProcedure", callable |-> callable]

IsProcedure(x) == x.kind \in {"Procedure", "BuiltinProcedure"}

IsSymbol(x) == x.kind = "Symbol"

DEFINE_SYM == Symbol(<<"d", "e", "f", "i", "n", "e">>)

BEGIN_SYM == Symbol(<<"b", "e", "g", "i", "n">>)

NIL == Symbol(<<"n", "i", "l">>)

\* first == DEFINE_SYM: str equality, true only of a Symbol with the same text
SymEq(x, sym) == IsSymbol(x) /\ x.name = sym.name

\* not exp: an int is falsy when 0, a str or a list when empty
Falsy(exp) ==
    \/ exp.kind = "Number" /\ exp.value = 0
    \/ exp.kind = "Symbol" /\ exp.name = <<>>
    \/ exp.kind = "List" /\ exp.elems = <<>>

(***************************************************************************)
(* int(token) on text: an optional sign, then digits which single          *)
(* underscores may separate.                                               *)
(***************************************************************************)
Digits == <<"0", "1", "2", "3", "4", "5", "6", "7", "8", "9">>

IsDigit(c) == \E i \in 1..10 : Digits[i] = c

DigitVal(c) == (CHOOSE i \in 1..10 : Digits[i] = c) - 1

IsSign(c) == c \in {"+", "-"}

Unsigned(text) == IF text # <<>> /\ IsSign(text[1]) THEN Tail(text) ELSE text

IsIntText(text) ==
    LET u == Unsigned(text) IN
    /\ u # <<>>
    /\ IsDigit(u[1])
    /\ IsDigit(u[Len(u)])
    /\ \A i \in 1..Len(u) : IsDigit(u[i]) \/ u[i] = "_"
    /\ \A i \in 1..(Len(u) - 1) : ~(u[i] = "_" /\ u[i + 1] = "_")

RECURSIVE Magnitude(_)
Magnitude(u) ==
    IF u = <<>> THEN 0
    ELSE IF Last(u) = "_" THEN Magnitude(SubSeq(u, 1, Len(u) - 1))
    ELSE 10 * Magnitude(SubSeq(u, 1, Len(u) - 1)) + DigitVal(Last(u))

IntOfText(text) ==
    IF text[1] = "-" THEN 0 - Magnitude(Unsigned(text)) ELSE Magnitude(Unsigned(text))

(***************************************************************************)
(* Raw Python values a native function returns, and results of calls.      *)
(***************************************************************************)
RawInt(n) == [kind |-> "int", value |-> n]

RawStr(text) == [kind |-> "str", text |-> text]

RawList(es) == [kind |-> "list", elems |-> es]

NoVal == [kind |-> "None"]

NoErr == "none"

ErrUndefined == "ValueError: Undefined symbol"

ErrNothing == "ValueError: Can't evaluate nothing"

ErrUnknownType == "TypeError: Unknown type"

ErrNotProcedure == "TypeError: Not a procedure"

ErrAssertType == "TypeError: Value is not of type"

ErrNative == "TypeError: native call"

ErrIntArg == "TypeError: int() argument"

ErrAssertion == "AssertionError"

ErrIndex == "IndexError"

Ok(v, h, t) == [ok |-> TRUE, val |-> v, err |-> NoErr, heap |-> h, trace |-> t]

Raise(e, h, t) == [ok |-> FALSE, val |-> NoVal, err |-> e, heap |-> h, trace |-> t]

(***************************************************************************)
(* Atom.of: Number(token) first; on ValueError the token must be a str     *)
(* and becomes a Symbol.  int() of a list raises TypeError, which the      *)
(* except clause does not catch.                                           *)
(***************************************************************************)
\* the decimal text of an integer
RECURSIVE DecimalText(_)
DecimalText(n) ==
    IF n < 0 THEN <<"-">> \o DecimalText(0 - n)
    ELSE IF n < 10 THEN <<Digits[n + 1]>>
    ELSE DecimalText(n \div 10) \o <<Digits[(n % 10) + 1]>>

AtomOfSymbolOnly(raw, h) ==
    IF raw.kind = "int" THEN Ok(Symbol(DecimalText(raw.value)), h, <<>>)
    ELSE IF raw.kind = "str" THEN Ok(Symbol(raw.text), h, <<>>)
    ELSE Raise(ErrIntArg, h, <<>>)

AtomOf(raw, h) ==
    IF raw.kind = "int" THEN Ok(Number(raw.value), h, <<>>)
    ELSE IF raw.kind = "str" THEN
        IF IsIntText(raw.text) THEN Ok(Number(IntOfText(raw.text)), h, <<>>)
        ELSE Ok(Symbol(raw.text), h, <<>>)
    ELSE Raise(ErrIntArg, h, <<>>)

(***************************************************************************)
(* Environment.                                                            *)
(***************************************************************************)
\* the dict built by the loop over zip(params, args): later wins
ZipBind(params, args) ==
    LET n == Min(Len(params), Len(args)) IN
    [nm \in {params[i].name : i \in 1..n} |->
        args[CHOOSE i \in 1..n :
                /\ params[i].name = nm
                /\ \A j \in (i + 1)..n : params[j].name # nm]]

\* Environment.__init__: the new frame
Environment(params, args, outer) == [env |-> ZipBind(params, args), outer |-> outer]

EnvironmentArgsOk(params) == \A i \in 1..Len(params) : IsSymbol(params[i])

RECURSIVE GetItemOuterFirst(_, _, _)
GetItemOuterFirst(h, e, sym) ==
    IF ~IsSymbol(sym) THEN Raise(ErrAssertType, h, <<>>)
    ELSE IF h[e].outer # 0 /\ GetItemOuterFirst(h, h[e].outer, sym).ok
        THEN GetItemOuterFirst(h, h[e].outer, sym)
    ELSE IF sym.name \in DOMAIN h[e].env THEN Ok(h[e].env[sym.name], h, <<>>)
    ELSE Raise(ErrUndefined, h, <<>>)

\* Environment.__getitem__
RECURSIVE GetItem(_, _, _)
GetItem(h, e, sym) ==
    IF ~IsSymbol(sym) THEN Raise(ErrAssertType, h, <<>>)
    ELSE IF sym.name \in DOMAIN h[e].env THEN Ok(h[e].env[sym.name], h, <<>>)
    ELSE IF h[e].outer # 0 THEN GetItem(h, h[e].outer, sym)
    ELSE Raise(ErrUndefined, h, <<>>)

\* Environment.__setitem__
SetItem(h, e, sym, exp) ==
    IF ~IsSymbol(sym) THEN Raise(ErrAssertType, h, <<>>)
    ELSE Ok(NoVal, [h EXCEPT ![e].env = (sym.name :> exp) @@ @], <<>>)

(***************************************************************************)
(* The native function bound to + : lambda a, b: a + b                     *)
(***************************************************************************)
NativeAdd(args, h) ==
    IF Len(args) # 2 THEN Raise(ErrNative, h, <<>>)
    ELSE LET a == args[1]
             b == args[2]
         IN IF a.kind = "Number" /\ b.kind = "Number"
                THEN Ok(RawInt(a.value + b.value), h, <<>>)
            ELSE IF a.kind = "Symbol" /\ b.kind = "Symbol"
                THEN Ok(RawStr(a.name \o b.name), h, <<>>)
            ELSE IF a.kind = "List" /\ b.kind = "List"
                THEN Ok(RawList(a.elems \o b.elems), h, <<>>)
            ELSE Raise(ErrNative, h, <<>>)

\* BuiltinProcedure.__call__
BuiltinCall(proc, args, h) ==
    LET raw == NativeAdd(args, h) IN
    IF raw.ok THEN AtomOf(raw.val, h) ELSE raw

(***************************************************************************)
(* eval_ and apply_.  A result carries the heap the call leaves behind     *)
(* and the trace of the eval_ calls made, in call order.                   *)
(***************************************************************************)
RECURSIVE eval_(_, _, _), EvalSeq(_, _, _), apply_(_, _, _), ProcedureCall(_, _, _)

ProcedureCallGlobalParent(proc, args, h) ==
    LET frame == Environment(proc.params, args, 1) IN
    IF ~EnvironmentArgsOk(proc.params) THEN Raise(ErrAssertType, h, <<>>)
    ELSE eval_(proc.body, Len(h) + 1, Append(h, frame))

\* Procedure.__call__
ProcedureCall(proc, args, h) ==
    LET frame == Environment(proc.params, args, proc.env) IN
    IF ~EnvironmentArgsOk(proc.params) THEN Raise(ErrAssertType, h, <<>>)
    ELSE eval_(proc.body, Len(h) + 1, Append(h, frame))

apply_(proc, args, h) ==
    IF ~IsProcedure(proc) THEN Raise(ErrNotProcedure, h, <<>>)
    ELSE IF proc.kind = "BuiltinProcedure" THEN BuiltinCall(proc, args, h)
    ELSE ProcedureCall(proc, args, h)

\* list(map(lambda x: eval_(x, env), xs)): in order, stopping at a failure
EvalSeq(xs, env, h) ==
    IF xs = <<>> THEN Ok(<<>>, h, <<>>)
    ELSE LET r == eval_(Head(xs), env, h) IN
         IF ~r.ok THEN r
         ELSE LET rs == EvalSeq(Tail(xs), env, r.heap) IN
              IF ~rs.ok THEN [rs EXCEPT !.trace = r.trace \o @]
              ELSE Ok(<<r.val>> \o rs.val, rs.heap, r.trace \o rs.trace)

EvalDefineEvaluating(rest, env, h, here) ==
    IF Len(rest) # 2 THEN Raise(ErrAssertion, h, here)
    ELSE LET v == eval_(rest[2], env, h) IN
         IF ~v.ok THEN [v EXCEPT !.trace = here \o @]
         ELSE LET s == SetItem(v.heap, env, rest[1], v.val) IN
              IF s.ok THEN Ok(NIL, s.heap, here \o v.trace)
              ELSE Raise(s.err, h, here \o v.trace)

\* the define branch of eval_
EvalDefine(rest, env, h, here) ==
    IF Len(rest) # 2 THEN Raise(ErrAssertion, h, here)
    ELSE LET s == SetItem(h, env, rest[1], rest[2]) IN
         IF s.ok THEN Ok(NIL, s.heap, here) ELSE Raise(s.err, h, here)

EvalBeginNoFrame(rest, env, h, here) ==
    LET vs == EvalSeq(rest, env, h) IN
    IF ~vs.ok THEN [vs EXCEPT !.trace = here \o @]
    ELSE IF vs.val = <<>> THEN Raise(ErrIndex, vs.heap, here)
    ELSE Ok(Last(vs.val), vs.heap, here \o vs.trace)

\* the begin branch of eval_
EvalBegin(rest, env, h, here) ==
    LET inner == Len(h) + 1
        vs == EvalSeq(rest, inner, Append(h, Environment(<<>>, <<>>, env)))
    IN IF ~vs.ok THEN [vs EXCEPT !.trace = here \o @]
       ELSE IF vs.val = <<>> THEN Raise(ErrIndex, vs.heap, here)
       ELSE Ok(Last(vs.val), vs.heap, here \o vs.trace)

\* the application branch of eval_
EvalApply(first, rest, env, h, here) ==
    LET p == eval_(first, env, h) IN
    IF ~p.ok THEN [p EXCEPT !.trace = here \o @]
    ELSE LET as == EvalSeq(rest, env, p.heap) IN
         IF ~as.ok THEN [as EXCEPT !.trace = here \o p.trace \o @]
         ELSE LET r == apply_(p.val, as.val, as.heap) IN
              [r EXCEPT !.trace = here \o p.trace \o as.trace \o @]

eval_(exp, env, h) ==
    LET here == <<[exp |-> exp, env |-> env]>> IN
    IF Falsy(exp) THEN Raise(ErrNothing, h, here)
    ELSE IF exp.kind = "Symbol" THEN [GetItem(h, env, exp) EXCEPT !.trace = here]
    ELSE IF exp.kind = "Number" THEN Ok(exp, h, here)
    ELSE IF exp.kind # "List" THEN Raise(ErrUnknownType, h, here)
    ELSE LET first == Head(exp.elems)
             rest == Tail(exp.elems)
         IN IF SymEq(first, DEFINE_SYM) THEN EvalDefine(rest, env, h, here)
            ELSE IF SymEq(first, BEGIN_SYM) THEN EvalBegin(rest, env, h, here)
            ELSE EvalApply(first, rest, env, h, here)

(***************************************************************************)
(* The evaluator as a state machine: the environments the host program     *)
(* holds (heap), and top-level calls of eval_, Environment.__getitem__     *)
(* and apply_ made on them.  last records the most recent call: its        *)
(* arguments, the heap before it (pre) and its result (res).               *)
(***************************************************************************)
X == <<"x">>

Y == <<"y">>

A == <<"a">>

B == <<"b">>

FN == <<"f">>

PLUS == <<"+">>

Add == BuiltinProcedure("lambda a, b: a + b")

\* global_env = Environment(); global_env[Symbol("+")] = BuiltinProcedure(...)
GlobalEnv == [env |-> (PLUS :> Add), outer |-> 0]

App(op, args) == List(<<op>> \o args)

Define(sym, val) == List(<<DEFINE_SYM, sym, val>>)

\* program = "(begin (define a 1) (define b 2) (+ a b))", for any two operands
BeginProgram(u, v) ==
    List(<<BEGIN_SYM, Define(Symbol(A), u), Define(Symbol(B), v),
           App(Symbol(PLUS), <<Symbol(A), Symbol(B)>>)>>)

Ints == (0 - MaxInt)..MaxInt

Numbers == {Number(n) : n \in Ints}

\* Procedure(params, body, env) objects a host program can construct
Closures ==
    {Procedure(<<Symbol(A)>>, body, e) :
        body \in {Symbol(X), Define(Symbol(X), Number(7))},
        e \in 1..2}

\* the environments a host program holds: the global frame and a second
\* frame, a child of it or a separate root; x may be bound in either and f
\* may be bound to a closure in the global frame
InitHeaps ==
    {<<[GlobalEnv EXCEPT !.env = fb @@ xb[1] @@ @],
       [env |-> xb[2], outer |-> o]>> :
        xb \in [1..2 -> {<<>>}] \cup {[i \in 1..2 |-> IF i \in S THEN X :> Number(i) ELSE <<>>] :
                                        S \in SUBSET (1..2)},
        fb \in {<<>>} \cup {FN :> c : c \in Closures},
        o \in 0..1}

DefinedValues ==
    {Number(0), Symbol(Y), App(Symbol(PLUS), <<Symbol(Y), Number(1)>>), List(<<>>)}

Texts == {Symbol(Y), Symbol(<<"-">>), Symbol(<<"1">>), List(<<Number(1)>>)}

Calls == {App(Symbol(FN), as) : as \in {<<>>, <<Number(1)>>, <<Number(1), Number(2)>>}}

Programs ==
    Numbers
    \cup {Symbol(X), List(<<>>), List(<<BEGIN_SYM>>)}
    \cup {App(Symbol(PLUS), <<n, Number(1)>>) : n \in Numbers}
    \cup {App(Symbol(PLUS), <<Symbol(X), Number(1)>>)}
    \cup {Define(s, v) : s \in {Symbol(X), Symbol(A)}, v \in DefinedValues}
    \cup {BeginProgram(u, v) : u, v \in Numbers}
    \cup {BeginProgram(u, v) : u, v \in Texts}
    \cup Calls

ArgLists ==
    {<<u, v>> : u, v \in Numbers} \cup {<<u, v>> : u, v \in Texts}
    \cup {<<>>, <<Number(1)>>, <<Number(1), Symbol(Y)>>}

\* what a session of calls evaluates: defines and calls of f
SessionPrograms ==
    {Define(s, v) : s \in {Symbol(X), Symbol(Y)},
                    v \in {Number(0), App(Symbol(PLUS), <<Symbol(Y), Number(1)>>)}}
    \cup Calls

EofText == <<"#", "<", "e", "o", "f", "-", "o", "b", "j", "e", "c", "t", ">">>

EOF_TOKEN == [text |-> EofText, obj |-> "EOF_TOKEN"]

Token(text) == [text |-> text, obj |-> "new"]

EOF_SYMBOL == Symbol(EOF_TOKEN.text)

\* no call of stream.next() has returned yet
NoToken == [text |-> <<>>, obj |-> "none"]

NoCall ==
    [op |-> "none", exp |-> NoVal, env |-> 0, proc |-> NoVal, args |-> <<>>,
     pre |-> <<>>, res |-> Ok(NoVal, <<>>, <<>>)]

InitRead ==
    /\ f = <<>>
    /\ line = <<>>
    /\ iters = 0
    /\ tok = NoToken
    /\ stack = <<>>
    /\ consumed = <<>>
    /\ rstate = "idle"
    /\ rval = NoVal
    /\ reads = 0

InitEval ==
    /\ heap = <<GlobalEnv>>
    /\ last = NoCall
    /\ ops = 0

Init ==
    /\ heap \in InitHeaps
    /\ last = NoCall
    /\ ops = 0
    /\ InitRead

\* the frames a call created are unreachable once it has returned
Keep(h) == SubSeq(h, 1, Len(heap))

\* eval_(exp, env) called by the host
Eval(exp, e) ==
    /\ ops < MaxOps
    /\ LET r == eval_(exp, e, heap) IN
       /\ heap' = Keep(r.heap)
       /\ last' = [NoCall EXCEPT !.op = "eval", !.exp = exp, !.env = e,
                                 !.pre = heap, !.res = r]
    /\ ops' = ops + 1
    /\ UNCHANGED readVars

\* env[sym] called by the host
Lookup(sym, e) ==
    /\ ops < MaxOps
    /\ LET r == GetItem(heap, e, sym) IN
       /\ heap' = Keep(r.heap)
       /\ last' = [NoCall EXCEPT !.op = "getitem", !.exp = sym, !.env = e,
                                 !.pre = heap, !.res = r]
    /\ ops' = ops + 1
    /\ UNCHANGED readVars

\* apply_(proc, args) called by the host
Apply(proc, args) ==
    /\ ops < MaxOps
    /\ LET r == apply_(proc, args, heap) IN
       /\ heap' = Keep(r.heap)
       /\ last' = [NoCall EXCEPT !.op = "apply", !.proc = proc, !.args = args,
                                 !.pre = heap, !.res = r]
    /\ ops' = ops + 1
    /\ UNCHANGED readVars

\* one call made by the host on any of the environments
Next ==
    \/ \E e \in 1..Len(heap) : \E exp \in Programs : last.op = "none" /\ Eval(exp, e)
    \/ \E e \in 1..Len(heap) : \E sym \in {Symbol(X), Symbol(PLUS), Symbol(FN)} :
           last.op = "none" /\ Lookup(sym, e)
    \/ \E args \in ArgLists : last.op = "none" /\ Apply(Add, args)
    \/ \E proc \in {Number(1)} \cup Closures :
           \E args \in {<<>>, <<Number(1)>>, <<Number(0), Symbol(Y)>>} :
               last.op = "none" /\ Apply(proc, args)

Spec == Init /\ [][Next]_vars

\* a session: up to MaxOps evaluations, one after the other, on one heap
NextSession == \E e \in 1..Len(heap) : \E exp \in SessionPrograms : Eval(exp, e)

SpecSession == Init /\ [][NextSession]_vars

(***************************************************************************)
(* Properties of the evaluator.                                            *)
(***************************************************************************)
\* the frames lookup visits from frame e: e itself first, then outward
RECURSIVE Chain(_, _)
Chain(h, e) == IF e = 0 THEN <<>> ELSE <<e>> \o Chain(h, h[e].outer)

Binders(h, e, name) == {i \in 1..Len(Chain(h, e)) : name \in DOMAIN h[Chain(h, e)[i]].env}

Bound(h, e, name) == Binders(h, e, name) # {}

Nearest(h, e, name) ==
    LET i == CHOOSE i \in Binders(h, e, name) : \A j \in Binders(h, e, name) : i <= j
    IN h[Chain(h, e)[i]].env[name]

PlusIsBuiltin(h, e) == Bound(h, e, PLUS) /\ Nearest(h, e, PLUS) = Add

Evaluated(exp) == last.op = "eval" /\ last.exp = exp

IsDefineCall ==
    /\ last.op = "eval"
    /\ last.exp.kind = "List"
    /\ Len(last.exp.elems) = 3
    /\ SymEq(last.exp.elems[1], DEFINE_SYM)
    /\ IsSymbol(last.exp.elems[2])

\* C1: evaluating (define s v) in env returns NIL without evaluating v (the
\* only eval_ call made is the one of the define list itself) and leaves
\* env's own frame mapping s to v; every other binding of that frame and
\* every other frame, the outer ones included, is unchanged.
C1_DefineBindsUnevaluated ==
    IsDefineCall =>
        LET s == last.exp.elems[2].name
            v == last.exp.elems[3]
            e == last.env
            pre == last.pre
            post == last.res.heap
        IN /\ last.res.ok
           /\ last.res.val = NIL
           /\ last.res.trace = <<[exp |-> last.exp, env |-> e]>>
           /\ heap = post
           /\ Len(post) = Len(pre)
           /\ post[e].outer = pre[e].outer
           /\ DOMAIN post[e].env = DOMAIN pre[e].env \cup {s}
           /\ post[e].env[s] = v
           /\ \A k \in DOMAIN pre[e].env \ {s} : post[e].env[k] = pre[e].env[k]
           /\ \A i \in 1..Len(pre) : i # e => post[i] = pre[i]

\* a define of a symbol bound only in an outer frame, whose value
\* expression would fail if it were evaluated
C1_Witness ==
    /\ IsDefineCall
    /\ last.pre[last.env].outer # 0
    /\ last.exp.elems[2].name \notin DOMAIN last.pre[last.env].env
    /\ Bound(last.pre, last.env, last.exp.elems[2].name)
    /\ last.exp.elems[3].kind = "List"
    /\ ~eval_(last.exp.elems[3], last.env, last.pre).ok
    /\ last.res.ok
    /\ heap[last.env].env[last.exp.elems[2].name] = last.exp.elems[3]

IsBeginCall(m, n) ==
    /\ Evaluated(BeginProgram(Number(m), Number(n)))
    /\ PlusIsBuiltin(last.pre, last.env)

\* C2: where + is the builtin addition, (begin (define a m) (define b n)
\* (+ a b)) yields Number(m+n); its elements are evaluated in order, each
\* once, in one fresh child frame of env, which ends up binding a and b;
\* env and every other frame are as before.
C2_BeginSequencing ==
    \A m, n \in Ints :
        IsBeginCall(m, n) =>
            LET e == last.env
                pre == last.pre
                post == last.res.heap
                inner == Len(pre) + 1
                at(x) == [exp |-> x, env |-> inner]
            IN /\ last.res.ok
               /\ last.res.val = Number(m + n)
               /\ Len(post) = inner
               /\ post[inner] = [env |-> (A :> Number(m)) @@ (B :> Number(n)), outer |-> e]
               /\ SubSeq(post, 1, Len(pre)) = pre
               /\ heap = pre
               /\ last.res.trace =
                      <<[exp |-> last.exp, env |-> e],
                        at(Define(Symbol(A), Number(m))),
                        at(Define(Symbol(B), Number(n))),
                        at(App(Symbol(PLUS), <<Symbol(A), Symbol(B)>>)),
                        at(Symbol(PLUS)), at(Symbol(A)), at(Symbol(B))>>

\* the begin program on a zero and a negative operand, in a child frame
C2_Witness ==
    /\ IsBeginCall(0, 0 - 1)
    /\ last.pre[last.env].outer # 0
    /\ last.res.ok
    /\ last.res.val = Number(0 - 1)

\* C3: eval of a Number returns that Number, raises nothing and changes no
\* frame, also as an operand of (+ n 1).
C3_NumberSelfEvaluating ==
    \A n \in Ints :
        /\ Evaluated(Number(n)) =>
               last.res.ok /\ last.res.val = Number(n) /\ last.res.heap = last.pre
        /\ (Evaluated(App(Symbol(PLUS), <<Number(n), Number(1)>>))
                /\ PlusIsBuiltin(last.pre, last.env)) =>
               last.res.ok /\ last.res.val = Number(n + 1) /\ last.res.heap = last.pre

\* C7: lookup returns the binding of the nearest frame of the chain that
\* binds the symbol and fails with the undefined-symbol error exactly when
\* none does; it changes no frame.  So (+ x 1) fails with that error, and
\* changes nothing, where the chain leaves x unbound.
C7_LookupNearest ==
    /\ last.op = "getitem" =>
           /\ last.res.heap = last.pre
           /\ heap = last.pre
           /\ IF Bound(last.pre, last.env, last.exp.name)
                  THEN last.res.ok /\ last.res.val = Nearest(last.pre, last.env, last.exp.name)
                  ELSE ~last.res.ok /\ last.res.err = ErrUndefined
    /\ (Evaluated(App(Symbol(PLUS), <<Symbol(X), Number(1)>>))
            /\ ~Bound(last.pre, last.env, X)) =>
           ~last.res.ok /\ last.res.err = ErrUndefined /\ last.res.heap = last.pre
               /\ heap = last.pre

\* a lookup from a child frame of a symbol both it and its parent bind
C7_Witness ==
    /\ last.op = "getitem"
    /\ Cardinality(Binders(last.pre, last.env, last.exp.name)) = 2
    /\ last.res.ok
    /\ last.res.val = last.pre[last.env].env[last.exp.name]
    /\ last.res.val # last.pre[last.pre[last.env].outer].env[last.exp.name]

IsClosureCall ==
    /\ last.op = "eval"
    /\ last.exp \in Calls
    /\ Bound(last.pre, last.env, FN)
    /\ Nearest(last.pre, last.env, FN).kind = "Procedure"

\* C8: a call of a closure evaluates the body in one new frame that binds
\* the parameters to the arguments and whose parent is the captured
\* environment; a free x of the body resolves on the captured chain,
\* whatever the caller's chain binds; no existing frame changes.
C8_ClosureLexicalScope ==
    IsClosureCall =>
        LET c == Nearest(last.pre, last.env, FN)
            args == Tail(last.exp.elems)
            pre == last.pre
            post == last.res.heap
            new == Len(pre) + 1
        IN /\ Len(post) = new
           /\ post[new].outer = c.env
           /\ \A i \in 1..Min(Len(c.params), Len(args)) :
                  post[new].env[c.params[i].name] = args[i]
           /\ SubSeq(post, 1, Len(pre)) = pre
           /\ heap = pre
           /\ c.body = Symbol(X) =>
                  /\ DOMAIN post[new].env = {c.params[i].name : i \in 1..Min(Len(c.params), Len(args))}
                  /\ IF Bound(pre, c.env, X)
                         THEN last.res.ok /\ last.res.val = Nearest(pre, c.env, X)
                         ELSE ~last.res.ok /\ last.res.err = ErrUndefined
           /\ c.body = Define(Symbol(X), Number(7)) =>
                  last.res.ok /\ last.res.val = NIL /\ post[new].env[X] = Number(7)

\* a call, from a frame whose own chain binds x differently, of a closure
\* whose captured frame has gained the binding of y since the start
C8_Witness ==
    /\ IsClosureCall
    /\ LET c == Nearest(last.pre, last.env, FN) IN
       /\ c.body = Symbol(X)
       /\ c.env # last.env
       /\ Y \in DOMAIN last.pre[c.env].env
       /\ Bound(last.pre, last.env, X)
       /\ Bound(last.pre, c.env, X)
       /\ Nearest(last.pre, last.env, X) # Nearest(last.pre, c.env, X)
       /\ last.res.ok
       /\ last.res.val = Nearest(last.pre, c.env, X)

IsBuiltinCall(a, b) == last.op = "apply" /\ last.proc = Add /\ last.args = <<a, b>>

IsBuiltinProgram(a, b) ==
    Evaluated(BeginProgram(a, b)) /\ PlusIsBuiltin(last.pre, last.env)

NL == "\n"

Quote == "\""

Backslash == "\\"

\* \s
IsSpace(c) == c \in {" ", NL, "\t", "\r"}

Apostrophe == "'"

\* stands for the backquote character, which a string of this module cannot hold
Backquote == "backquote"

\* the characters the last alternative of TOKEN_REGEX excludes
IsDelimiter(c) == IsSpace(c) \/ c \in {"(", ")", Apostrophe, Quote, Backquote, ",", ";"}

\* \s* : the length of the longest prefix of whitespace
SpaceRun(s) ==
    CHOOSE n \in 0..Len(s) :
        /\ \A i \in 1..n : IsSpace(s[i])
        /\ n = Len(s) \/ ~IsSpace(s[n + 1])

\* .* : the length of the longest prefix without a newline
DotRun(s) ==
    CHOOSE n \in 0..Len(s) :
        /\ \A i \in 1..n : s[i] # NL
        /\ n = Len(s) \/ s[n + 1] = NL

\* the last alternative of TOKEN_REGEX: the longest prefix without a delimiter
BareRun(s) ==
    CHOOSE n \in 0..Len(s) :
        /\ \A i \in 1..n : ~IsDelimiter(s[i])
        /\ n = Len(s) \/ IsDelimiter(s[n + 1])

Drop(s, n) == SubSeq(s, n + 1, Len(s))

Take(s, n) == SubSeq(s, 1, n)

\* "(?:[\\].|[^\\"])*" matched from the character after the opening quote:
\* the index of the closing quote, 0 when the alternative does not match
RECURSIVE StringEnd(_, _)
StringEnd(s, i) ==
    IF i > Len(s) THEN 0
    ELSE IF s[i] = Quote THEN i
    ELSE IF s[i] = Backslash
        THEN IF i + 1 <= Len(s) /\ s[i + 1] # NL THEN StringEnd(s, i + 2) ELSE 0
    ELSE StringEnd(s, i + 1)

\* group 1 of TOKEN_REGEX on s, the text after the leading whitespace
TokenGroup(s) ==
    IF s = <<>> THEN <<>>
    ELSE IF s[1] \in {"(", ")"} THEN Take(s, 1)
    ELSE IF s[1] = Quote /\ StringEnd(s, 2) # 0 THEN Take(s, StringEnd(s, 2))
    ELSE IF s[1] = ";" THEN Take(s, DotRun(s))
    ELSE Take(s, BareRun(s))

\* re.match(TOKEN_REGEX, line).groups()
Match(ln) ==
    LET s == Drop(ln, SpaceRun(ln))
        token == TokenGroup(s)
        after == Drop(s, Len(token))
    IN [token |-> token, rest |-> Take(after, DotRun(after))]

\* f.readline(): up to and including the first newline
ReadLine(src) ==
    LET n == DotRun(src)
        k == IF n < Len(src) THEN n + 1 ELSE n
    IN [line |-> Take(src, k), f |-> Drop(src, k)]

\* one iteration of the loop of InStream.next
NextStep(src, ln) ==
    LET pulled == IF ln = <<>> THEN ReadLine(src) ELSE [line |-> ln, f |-> src]
        m == Match(pulled.line)
    IN IF pulled.line = <<>>
           THEN [returned |-> TRUE, token |-> EOF_TOKEN, line |-> pulled.line, f |-> pulled.f]
       ELSE IF m.token # <<>>
           THEN [returned |-> TRUE, token |-> Token(m.token), line |-> m.rest, f |-> pulled.f]
       ELSE [returned |-> FALSE, token |-> NoVal, line |-> m.rest, f |-> pulled.f]

\* Atom.of(token) in read_ahead
AtomOfToken(t) == AtomOf(RawStr(t.text), <<>>).val

SyntaxErrorParen == [kind |-> "SyntaxError", msg |-> "Unexpected )"]

SyntaxErrorEOF == [kind |-> "SyntaxError", msg |-> "Unexpected EOF in list"]

ReadAheadPartialList(t, stk) ==
    IF stk = <<>> THEN
        IF t.obj = "EOF_TOKEN" THEN [state |-> "done", stack |-> stk, val |-> EOF_SYMBOL]
        ELSE IF t.text = <<"(">> THEN [state |-> "next", stack |-> <<<<>>>>, val |-> NoVal]
        ELSE IF t.text = <<")">> THEN [state |-> "error", stack |-> stk, val |-> SyntaxErrorParen]
        ELSE [state |-> "done", stack |-> stk, val |-> AtomOfToken(t)]
    ELSE
        IF t.text = <<")">> \/ t.obj = "EOF_TOKEN" THEN
            LET L == List(Last(stk))
                up == Take(stk, Len(stk) - 1)
            IN IF up = <<>> THEN [state |-> "done", stack |-> up, val |-> L]
               ELSE [state |-> "next", val |-> NoVal,
                     stack |-> [up EXCEPT ![Len(up)] = Append(@, L)]]
        ELSE IF t.text = <<"(">> THEN [state |-> "next", stack |-> Append(stk, <<>>), val |-> NoVal]
        ELSE [state |-> "next", val |-> NoVal,
              stack |-> [stk EXCEPT ![Len(stk)] = Append(@, AtomOfToken(t))]]

\* what read and read_ahead do with the token stream.next() returned; stk
\* holds the lists still open, the innermost last
ReadAhead(t, stk) ==
    IF stk = <<>> THEN
        IF t.obj = "EOF_TOKEN" THEN [state |-> "done", stack |-> stk, val |-> EOF_SYMBOL]
        ELSE IF t.text = <<"(">> THEN [state |-> "next", stack |-> <<<<>>>>, val |-> NoVal]
        ELSE IF t.text = <<")">> THEN [state |-> "error", stack |-> stk, val |-> SyntaxErrorParen]
        ELSE [state |-> "done", stack |-> stk, val |-> AtomOfToken(t)]
    ELSE
        IF t.text = <<")">> THEN
            LET L == List(Last(stk))
                up == Take(stk, Len(stk) - 1)
            IN IF up = <<>> THEN [state |-> "done", stack |-> up, val |-> L]
               ELSE [state |-> "next", val |-> NoVal,
                     stack |-> [up EXCEPT ![Len(up)] = Append(@, L)]]
        ELSE IF t.text = <<"(">> THEN [state |-> "next", stack |-> Append(stk, <<>>), val |-> NoVal]
        ELSE IF t.obj = "EOF_TOKEN" THEN [state |-> "error", stack |-> stk, val |-> SyntaxErrorEOF]
        ELSE [state |-> "next", val |-> NoVal,
              stack |-> [stk EXCEPT ![Len(stk)] = Append(@, AtomOfToken(t))]]

Alphabet == {"(", ")", " ", NL, ";", Apostrophe, Quote, Backslash, "a", "1"}

SampleSources ==
    {<<"#", "<", "e", "o", "f", "-", "o", "b", "j", "e", "c", "t", ">">>,
     <<"(", "+", " ", "1", " ", "2">>,
     <<"(", "a", " ", "(", "b">>,
     <<"(", "+", " ", "1", " ", "2", ")">>,
     <<"(", "b", "e", "g", "i", "n", " ", "(", "d", "e", "f", "i", "n", "e", " ", "a", " ", "1", ")", " ", "(", "d", "e", "f", "i", "n", "e", " ", "b", " ", "2", ")", " ", "(", "+", " ", "a", " ", "b", ")", ")">>,
     <<"(", "a", " ", ";", " ", "c", "\n", " ", "b", ")">>}

Sources == UNION {[1..k -> Alphabet] : k \in 0..MaxSrcLen} \cup SampleSources

InitReader ==
    /\ f \in Sources
    /\ line = <<>>
    /\ iters = 0
    /\ tok = NoToken
    /\ stack = <<>>
    /\ consumed = <<>>
    /\ rstate = "idle"
    /\ rval = NoVal
    /\ reads = 0
    /\ InitEval

\* the host calls read(stream)
Read ==
    /\ rstate \in {"idle", "done", "error"}
    /\ reads < MaxReads
    /\ reads' = reads + 1
    /\ rstate' = "next"
    /\ stack' = <<>>
    /\ consumed' = <<>>
    /\ iters' = 0
    /\ tok' = NoToken
    /\ rval' = NoVal
    /\ UNCHANGED <<f, line, evalVars>>

\* one iteration of the loop of stream.next() and, when it returns a token,
\* the reader's code up to its next call of stream.next() or its return
NextIter ==
    /\ rstate = "next"
    /\ iters < MaxIters
    /\ LET n == NextStep(f, line) IN
       /\ f' = n.f
       /\ line' = n.line
       /\ IF n.returned
             THEN LET r == ReadAhead(n.token, stack) IN
                  /\ tok' = n.token
                  /\ consumed' = Append(consumed, n.token)
                  /\ iters' = 0
                  /\ rstate' = r.state
                  /\ stack' = r.stack
                  /\ rval' = r.val
             ELSE /\ iters' = iters + 1
                  /\ UNCHANGED <<tok, consumed, rstate, stack, rval>>
    /\ UNCHANGED <<reads, evalVars>>

NextReader == Read \/ NextIter

SpecReader == InitReader /\ [][NextReader]_vars

(***************************************************************************)
(* Properties of the tokenizer and the reader.                             *)
(***************************************************************************)
\* C4: every iteration of the loop of next() that does not return either
\* shortens the buffered line or pulls the next line from the source, so
\* the tokenizer always advances and next() terminates.
C4_TokenizerAdvances ==
    [][(rstate = "next" /\ rstate' = "next" /\ iters' = iters + 1) =>
           (Len(line') < Len(line) \/ Len(f') < Len(f))]_vars

\* C5: comments are discarded: no token next() returns begins with ';'.
C5_NoCommentToken == tok.obj = "new" => Head(tok.text) # ";"

\* C6: read on an exhausted source returns the end-of-input symbol; no
\* token made from input text has the sentinel's text, and no value read
\* from input that was not exhausted equals the end-of-input symbol.
C6_EofDistinguishable ==
    /\ tok.obj = "new" => tok.text # EofText
    /\ (rstate = "done" /\ Last(consumed).obj = "EOF_TOKEN") => rval = EOF_SYMBOL
    /\ (rstate = "done" /\ Last(consumed).obj # "EOF_TOKEN") => rval # EOF_SYMBOL

Open == [kind |-> "open"]

Close == [kind |-> "close"]

\* the tokens of a tree, in order
RECURSIVE Flatten(_), FlattenAll(_)
Flatten(exp) ==
    IF exp.kind = "List" THEN <<Open>> \o FlattenAll(exp.elems) \o <<Close>>
    ELSE <<exp>>

FlattenAll(es) == IF es = <<>> THEN <<>> ELSE Flatten(Head(es)) \o FlattenAll(Tail(es))

\* what each token read stands for
Expected(toks) ==
    [i \in 1..Len(toks) |->
        IF toks[i].text = <<"(">> THEN Open
        ELSE IF toks[i].text = <<")">> THEN Close
        ELSE IF IsIntText(toks[i].text) THEN Number(IntOfText(toks[i].text))
        ELSE Symbol(toks[i].text)]

\* the number of lists the first k tokens leave open
RECURSIVE Depth(_, _)
Depth(toks, k) ==
    IF k = 0 THEN 0
    ELSE Depth(toks, k - 1)
         + (IF toks[k].text = <<"(">> THEN 1 ELSE IF toks[k].text = <<")">> THEN 0 - 1 ELSE 0)

NoEof(toks) == \A i \in 1..Len(toks) : toks[i].obj = "new"

\* C10: read fails with SyntaxError when the source is exhausted while a
\* list is open, at any depth, and when the first token is ")"; it goes on
\* reading only while a list is open, and what it returns for tokens read
\* from the input is the tree of exactly those tokens, never a partial list.
C10_ReadSyntaxErrors ==
    /\ rstate = "error" =>
           /\ rval.kind = "SyntaxError"
           /\ \/ Len(consumed) = 1 /\ consumed[1].text = <<")">>
              \/ /\ Last(consumed).obj = "EOF_TOKEN"
                 /\ Len(consumed) > 1
                 /\ Depth(consumed, Len(consumed) - 1) > 0
    /\ rstate = "done" =>
           IF consumed[1].obj = "EOF_TOKEN" THEN Len(consumed) = 1 /\ rval = EOF_SYMBOL
           ELSE /\ NoEof(consumed)
                /\ Depth(consumed, Len(consumed)) = 0
                /\ Flatten(rval) = Expected(consumed)
    /\ rstate = "next" =>
           /\ NoEof(consumed)
           /\ \A k \in 1..Len(consumed) : Depth(consumed, k) > 0
           /\ Len(stack) = Depth(consumed, Len(consumed))

\* the source ran out with two lists open, one inside the other
C10_Witness ==
    /\ rstate = "error"
    /\ Last(consumed).obj = "EOF_TOKEN"
    /\ Len(stack) >= 2
    /\ rval = SyntaxErrorEOF

====
